---- MODULE Spec2Model ----
(***************************************************************************)
(* Model of app/api/api.py: the "api" blueprint of the recreational        *)
(* facilities catalogue.  Storage (four read-only tables and the           *)
(* Subscriber table), the scoped ORM session of each request, and one      *)
(* action per route handler.                                               *)
(*                                                                         *)
(* Strings are sequences of one-character strings, so that LIKE patterns,  *)
(* XML escaping and sorting are computed character by character.           *)
(* An optional value (request.args.get) is <<>> for None and <<v>> for v.  *)
(***************************************************************************)
EXTENDS Integers, Sequences, FiniteSets, TLC

VARIABLES
    arrondissements,          \* Arrondissement table, rows in storage order
    glissades,                \* Glissade table
    installations_aquatiques, \* InstallationAquatique table
    patinoires,               \* Patinoire table
    subscribers,              \* Subscriber table (committed rows)
    session,                  \* db.session of each request: objects added, not yet removed
    pc,                       \* position of each /abonnement request in subscribe()
    request_data,             \* request.get_json() of each /abonnement request
    response,                 \* what each /abonnement request returned
    reply                     \* what the last GET request returned

vars == <<arrondissements, glissades, installations_aquatiques, patinoires,
          subscribers, session, pc, request_data, response, reply>>

tables == <<arrondissements, glissades, installations_aquatiques, patinoires>>

----------------------------------------------------------------------------
(* Bounds *)

\* largest number of facility rows stored over the three facility tables
MaxRows == 3

\* number of /abonnement requests that may be in flight together
MaxRequests == 2

Requests == 1..MaxRequests

----------------------------------------------------------------------------
(* Strings *)

None == <<>>

Some(v) == <<v>>

\* Unicode code point of the characters the model uses (str comparison order)
CodePoint(c) ==
    CASE c = "\t" -> 9
      [] c = "\n" -> 10
      [] c = " " -> 32
      [] c = "&" -> 38
      [] c = "-" -> 45
      [] c = "0" -> 48
      [] c = "1" -> 49
      [] c = "2" -> 50
      [] c = ";" -> 59
      [] c = "<" -> 60
      [] c = ">" -> 62
      [] c = "A" -> 65
      [] c = "B" -> 66
      [] c = "a" -> 97
      [] c = "b" -> 98
      [] OTHER -> 120

\* a < b for two str values: lexicographic on code points
StrLess(a, b) ==
    \E k \in 0..Len(a) :
        /\ k <= Len(b)
        /\ \A i \in 1..k : a[i] = b[i]
        /\ \/ k = Len(a) /\ k < Len(b)
           \/ k < Len(a) /\ k < Len(b) /\ CodePoint(a[k + 1]) < CodePoint(b[k + 1])

StrLeq(a, b) == a = b \/ StrLess(a, b)

RECURSIVE Concat(_)
\* ''.join(parts)
Concat(parts) ==
    IF parts = <<>> THEN <<>> ELSE Head(parts) \o Concat(Tail(parts))

RECURSIVE LikeMatch(_, _)
\* SQL: s LIKE pattern, with the wildcards % (any run) and _ (any one character)
LikeMatch(s, pattern) ==
    IF pattern = <<>> THEN s = <<>>
    ELSE IF Head(pattern) = "%"
         THEN \E k \in 0..Len(s) : LikeMatch(SubSeq(s, k + 1, Len(s)), Tail(pattern))
         ELSE /\ s # <<>>
              /\ Head(pattern) = "_" \/ Head(pattern) = Head(s)
              /\ LikeMatch(Tail(s), Tail(pattern))

\* column.like(other)
like(column, other) == LikeMatch(column, other)

\* column.contains(other): column LIKE '%' || other || '%'
contains(column, other) == LikeMatch(column, <<"%">> \o other \o <<"%">>)

----------------------------------------------------------------------------
(* Queries *)

\* Model.query.filter(...).all() is SelectSeq: the rows satisfying the filter,
\* in storage order

\* Model.query.all()
query_all(rows) == SelectSeq(rows, LAMBDA r : TRUE)

\* the Arrondissement rows a facility row joins to through its foreign key
JoinArrondissement(row, arrs) ==
    { i \in 1..Len(arrs) : arrs[i].id = row.arrondissement_id }

\* mutant: the EXISTS loses its join condition, any borough of that name counts
arrondissement_any_has_nom(row, arrs, arr_filter) ==
    \E i \in 1..Len(arrs) : arrs[i].nom = arr_filter

\* Model.arrondissement.has(nom=arr_filter): EXISTS over the related row
arrondissement_has_nom(row, arrs, arr_filter) ==
    \E i \in JoinArrondissement(row, arrs) : arrs[i].nom = arr_filter

\* join(Model.arrondissement).filter(Arrondissement.date_maj.like(year + "%"))
arrondissement_date_maj_like(row, arrs, pattern) ==
    \E i \in JoinArrondissement(row, arrs) : like(arrs[i].date_maj, pattern)

\* the orders .order_by(Model.nom.asc()).all() may return rows in: ascending
\* nom, rows of equal nom in an order the database chooses
OrderByNomAsc(rows) ==
    { [i \in 1..Len(rows) |-> rows[p[i]]] :
        p \in { q \in [1..Len(rows) -> 1..Len(rows)] :
                  /\ \A i, j \in 1..Len(rows) : i # j => q[i] # q[j]
                  /\ \A i \in 1..(Len(rows) - 1) :
                        StrLeq(rows[q[i]].nom, rows[q[i + 1]].nom) } }

----------------------------------------------------------------------------
(* Serialisation: marshmallow Model(many=True).dump *)

GlissadeFields == <<"id", "nom", "arrondissement_id">>

InstallationAquatiqueFields == <<"id", "nom", "arrondissement_id">>

PatinoireFields == <<"id", "nom", "date_heure", "arrondissement_id">>

ArrondissementFields == <<"id", "nom", "date_maj">>

SubscriberFields == <<"id", "full_name", "email", "boroughs_to_follow">>

\* Schema().dump(obj): the document of one object, its fields in schema order
dump(obj, fields) == [i \in 1..Len(fields) |-> <<fields[i], obj[fields[i]]>>]

\* Schema(many=True).dump(objs)
dump_many(objs, fields) == [i \in 1..Len(objs) |-> dump(objs[i], fields)]

\* the three-keyed envelope passed to jsonify
Envelope(slides, aquatic, ice_rinks) ==
    [glissades |-> slides,
     installations_aquatiques |-> aquatic,
     patinoires |-> ice_rinks]

----------------------------------------------------------------------------
(* Read handlers *)

\* _get_all_facilities(): (aquatic facilities, ice rinks, slides)
get_all_facilities ==
    <<query_all(installations_aquatiques), query_all(patinoires), query_all(glissades)>>

\* the body facilities() returns for request.args.get("arrondissement") = arr_filter
facilities_body(arr_filter) ==
    LET all == get_all_facilities
        has(r) == arrondissement_has_nom(r, arrondissements, arr_filter[1])
        slides == IF arr_filter # None THEN SelectSeq(glissades, has) ELSE all[3]
        aquatic == IF arr_filter # None
                   THEN SelectSeq(installations_aquatiques, has) ELSE all[1]
        ice_rinks == IF arr_filter # None THEN SelectSeq(patinoires, has) ELSE all[2]
    IN  Envelope(dump_many(slides, GlissadeFields),
                 dump_many(aquatic, InstallationAquatiqueFields),
                 dump_many(ice_rinks, PatinoireFields))

\* the year literal of _get_facilities_updated_2021
year == <<"2", "0", "2", "1">>

\* mutant: the borough's date_maj matched anywhere, as the rinks' date_heure is
updated_by_arrondissement_anywhere(row, arrs) ==
    \E i \in JoinArrondissement(row, arrs) : contains(arrs[i].date_maj, year)

\* the filter of the two joined queries: Arrondissement.date_maj.like(year + "%")
updated_by_arrondissement(row, arrs) ==
    arrondissement_date_maj_like(row, arrs, year \o <<"%">>)

\* mutant: the rinks' date_heure matched as a prefix, as date_maj is
updated_by_date_heure_prefix(row) == like(row.date_heure, year \o <<"%">>)

\* the filter of the ice rink query: Patinoire.date_heure.contains(year)
updated_by_date_heure(row) == contains(row.date_heure, year)

\* _get_facilities_updated_2021(): every (aquatic, ice rinks, slides) triple of
\* serialised documents the three ordered queries may produce
get_facilities_updated_2021 ==
    LET joined(r) == updated_by_arrondissement(r, arrondissements)
    IN  { <<dump_many(a, InstallationAquatiqueFields),
            dump_many(p, PatinoireFields),
            dump_many(s, GlissadeFields)>> :
            s \in OrderByNomAsc(SelectSeq(glissades, joined)),
            a \in OrderByNomAsc(SelectSeq(installations_aquatiques, joined)),
            p \in OrderByNomAsc(SelectSeq(patinoires, updated_by_date_heure)) }

RECURSIVE InsertSorted(_, _)
\* x placed after the last element of the sorted list that is <= x
InsertSorted(x, sortedList) ==
    IF sortedList = <<>> THEN <<x>>
    ELSE IF StrLess(x, Head(sortedList))
         THEN <<x>> \o sortedList
         ELSE <<Head(sortedList)>> \o InsertSorted(x, Tail(sortedList))

\* mutant: the names are returned in the order they were collected
unsorted(list) == list

RECURSIVE sorted(_)
\* Python sorted(list of str): ascending, stable
sorted(list) ==
    IF list = <<>> THEN <<>>
    ELSE InsertSorted(list[Len(list)], sorted(SubSeq(list, 1, Len(list) - 1)))

\* the list facility_names() builds and sorts
facility_names_body ==
    LET all == get_all_facilities
        names(rows) == [i \in 1..Len(rows) |-> rows[i].nom]
    IN  sorted(names(all[1]) \o names(all[2]) \o names(all[3]))

\* the body facility_name_search() returns when 'nom' is given
facility_name_search_body(name_filter) ==
    LET eq(r) == r.nom = name_filter[1]
    IN  Envelope(dump_many(SelectSeq(glissades, eq), GlissadeFields),
                 dump_many(SelectSeq(installations_aquatiques, eq),
                           InstallationAquatiqueFields),
                 dump_many(SelectSeq(patinoires, eq), PatinoireFields))

----------------------------------------------------------------------------
(* XML.  Markup is a sequence of tokens: a declaration, a start tag (with  *)
(* its attributes), an end tag, an empty-element tag, or character data as *)
(* it is written in the file, entity references included.                  *)

DeclToken(v) == [t |-> "decl", tag |-> v, attrs |-> <<>>, data |-> <<>>]

StartTag(n, a) == [t |-> "start", tag |-> n, attrs |-> a, data |-> <<>>]

EndTag(n) == [t |-> "end", tag |-> n, attrs |-> <<>>, data |-> <<>>]

EmptyTag(n, a) == [t |-> "empty", tag |-> n, attrs |-> a, data |-> <<>>]

CharData(s) == [t |-> "chars", tag |-> "", attrs |-> <<>>, data |-> s]

Chars(tokens) == IF tokens = <<>> THEN <<>> ELSE <<CharData(tokens)>>

\* the fields whose values are numbers (the integer key columns)
IsNumber(key) == key \in {"id", "arrondissement_id"}

RECURSIVE str_int(_)
\* str(n) for an int n >= 0: its decimal digits
str_int(n) ==
    LET digit(d) == CASE d = 0 -> "0" [] d = 1 -> "1" [] d = 2 -> "2" [] d = 3 -> "3"
                      [] d = 4 -> "4" [] d = 5 -> "5" [] d = 6 -> "6" [] d = 7 -> "7"
                      [] d = 8 -> "8" [] OTHER -> "9"
    IN  IF n < 10 THEN <<digit(n)>> ELSE str_int(n \div 10) \o <<digit(n % 10)>>

\* dicttoxml.escape_xml on one character of a str
escape_char(c) ==
    CASE c = "&" -> <<"&", "a", "m", "p", ";">>
      [] c = "<" -> <<"&", "l", "t", ";">>
      [] c = ">" -> <<"&", "g", "t", ";">>
      [] OTHER -> <<c>>

\* dicttoxml.escape_xml(s)
escape_xml(s) == Concat([i \in 1..Len(s) |-> escape_char(s[i])])

\* dicttoxml.make_attrstring input: the type attribute, only when attr_type
type_attr(key, attr_type) ==
    IF attr_type THEN <<(IF IsNumber(key) THEN "type=int" ELSE "type=str")>> ELSE <<>>

\* mutant: the value is written without escape_xml
convert_kv_unescaped(key, val, attr_type) ==
    <<StartTag(key, type_attr(key, attr_type))>>
        \o Chars(IF IsNumber(key) THEN str_int(val) ELSE val)
        \o <<EndTag(key)>>

\* dicttoxml.convert_kv: <key>value</key>
convert_kv(key, val, attr_type) ==
    <<StartTag(key, type_attr(key, attr_type))>>
        \o Chars(IF IsNumber(key) THEN str_int(val) ELSE escape_xml(val))
        \o <<EndTag(key)>>

\* dicttoxml.convert_dict: one element per field of the document, in its order
convert_dict(doc, attr_type) ==
    Concat([i \in 1..Len(doc) |-> convert_kv(doc[i][1], doc[i][2], attr_type)])

\* dicttoxml.convert_list: <item>...</item> per document, in list order
convert_list(docs, attr_type) ==
    Concat([i \in 1..Len(docs) |->
              <<StartTag("item", IF attr_type THEN <<"type=dict">> ELSE <<>>)>>
                  \o convert_dict(docs[i], attr_type)
                  \o <<EndTag("item")>>])

\* dicttoxml(obj, root=False, attr_type=attr_type) of a list of documents
dicttoxml(docs, attr_type) == convert_list(docs, attr_type)

\* joined_xml_data of facilities_updated_2021_xml
joined_xml_data(aquatic_facilities, ice_rinks, slides) ==
    Concat(<< <<DeclToken("xml version=1.0 encoding=utf-8"),
                StartTag("installations", <<>>), StartTag("glissades", <<>>)>>,
              dicttoxml(slides, FALSE),
              <<EndTag("glissades"), StartTag("installations_aquatiques", <<>>)>>,
              dicttoxml(aquatic_facilities, FALSE),
              <<EndTag("installations_aquatiques"), StartTag("patinoires", <<>>)>>,
              dicttoxml(ice_rinks, FALSE),
              <<EndTag("patinoires"), EndTag("installations")>> >>)

\* whether s begins with p
HasPrefix(s, p) == Len(s) >= Len(p) /\ SubSeq(s, 1, Len(p)) = p

AmpRef == <<"&", "a", "m", "p", ";">>

LtRef == <<"&", "l", "t", ";">>

GtRef == <<"&", "g", "t", ";">>

RECURSIVE well_formed_chars(_)
\* expat accepts character data with no raw "<" and no "&" but in a reference
well_formed_chars(s) ==
    IF s = <<>> THEN TRUE
    ELSE IF Head(s) = "<" THEN FALSE
    ELSE IF HasPrefix(s, AmpRef) THEN well_formed_chars(SubSeq(s, 6, Len(s)))
    ELSE IF HasPrefix(s, LtRef) \/ HasPrefix(s, GtRef)
         THEN well_formed_chars(SubSeq(s, 5, Len(s)))
    ELSE IF Head(s) = "&" THEN FALSE
    ELSE well_formed_chars(Tail(s))

RECURSIVE unescape_chars(_)
\* the text expat reports for well-formed character data
unescape_chars(s) ==
    IF s = <<>> THEN <<>>
    ELSE IF HasPrefix(s, AmpRef) THEN <<"&">> \o unescape_chars(SubSeq(s, 6, Len(s)))
    ELSE IF HasPrefix(s, LtRef) THEN <<"<">> \o unescape_chars(SubSeq(s, 5, Len(s)))
    ELSE IF HasPrefix(s, GtRef) THEN <<">">> \o unescape_chars(SubSeq(s, 5, Len(s)))
    ELSE <<Head(s)>> \o unescape_chars(Tail(s))

\* minidom nodes
ElementNode(n, a, k) == [kind |-> "element", tag |-> n, attrs |-> a, data |-> <<>>, kids |-> k]

TextNode(s) == [kind |-> "text", tag |-> "", attrs |-> <<>>, data |-> s, kids |-> <<>>]

IsWhitespace(s) == \A i \in 1..Len(s) : s[i] \in {" ", "\t", "\n"}

\* node appended to the children of the element on top of the stack
AppendChild(stack, node) ==
    [stack EXCEPT ![Len(stack)].kids = Append(@, node)]

\* expat handling one token for minidom's builder: stack holds the open
\* elements, the document node at the bottom; ok turns FALSE where expat
\* raises ExpatError
parse_token(state, tok) ==
    LET stack == state.stack
        top == stack[Len(stack)]
        fail == [ok |-> FALSE, stack |-> stack]
        go(st) == [ok |-> TRUE, stack |-> st]
    IN  IF ~state.ok THEN state
        ELSE CASE tok.t = "decl" -> state
               [] tok.t = "start" ->
                    go(Append(stack, ElementNode(tok.tag, tok.attrs, <<>>)))
               [] tok.t = "empty" ->
                    go(AppendChild(stack, ElementNode(tok.tag, tok.attrs, <<>>)))
               [] tok.t = "chars" ->
                    IF ~well_formed_chars(tok.data) THEN fail
                    ELSE IF Len(stack) = 1
                         THEN IF IsWhitespace(tok.data) THEN state ELSE fail
                         ELSE go(AppendChild(stack, TextNode(unescape_chars(tok.data))))
               [] OTHER ->
                    IF Len(stack) < 2 \/ top.tag # tok.tag THEN fail
                    ELSE go(AppendChild(SubSeq(stack, 1, Len(stack) - 1), top))

RECURSIVE parse_tokens(_, _, _, _)
\* the tokens lo..hi handled in order, from state
parse_tokens(tokens, lo, hi, state) ==
    IF lo > hi THEN state
    ELSE IF lo = hi THEN parse_token(state, tokens[lo])
    ELSE LET mid == (lo + hi) \div 2
             left == parse_tokens(tokens, lo, mid, state)
         IN  IF left.ok THEN parse_tokens(tokens, mid + 1, hi, left) ELSE left

\* xml.dom.minidom.parseString(joined_xml_data): the document node, or ok
\* FALSE where the text is not well formed
parseString(tokens) ==
    LET document == [kind |-> "document", tag |-> "", attrs |-> <<>>,
                     data |-> <<>>, kids |-> <<>>]
        end == parse_tokens(tokens, 1, Len(tokens), [ok |-> TRUE, stack |-> <<document>>])
    IN  [ok |-> end.ok /\ Len(end.stack) = 1 /\ Len(end.stack[1].kids) = 1,
         doc |-> end.stack[1]]

\* a write to the file: character data written after character data is one
\* run of characters
write_token(written, tok) ==
    IF written # <<>> /\ written[Len(written)].t = "chars" /\ tok.t = "chars"
    THEN [written EXCEPT ![Len(written)] = CharData(@.data \o tok.data)]
    ELSE Append(written, tok)

RECURSIVE merge_chars(_, _, _, _)
\* the tokens lo..hi written in order after written
merge_chars(tokens, lo, hi, written) ==
    IF lo > hi THEN written
    ELSE IF lo = hi THEN write_token(written, tokens[lo])
    ELSE LET mid == (lo + hi) \div 2
             left == merge_chars(tokens, lo, mid, written)
         IN  IF left = <<>> THEN merge_chars(tokens, mid + 1, hi, <<>>)
             ELSE merge_chars(tokens, mid + 1, hi, left)

RECURSIVE writexml(_, _)
\* Node.writexml(writer, indent, addindent="\t", newl="\n")
writexml(node, indent) ==
    IF node.kind = "text"
    THEN Chars(indent \o escape_xml(node.data) \o <<"\n">>)
    ELSE IF node.kids = <<>>
    THEN Chars(indent) \o <<EmptyTag(node.tag, node.attrs)>> \o Chars(<<"\n">>)
    ELSE Chars(indent) \o <<StartTag(node.tag, node.attrs)>>
           \o (IF Len(node.kids) = 1 /\ node.kids[1].kind = "text"
               THEN Chars(escape_xml(node.kids[1].data))
               ELSE Chars(<<"\n">>)
                      \o Concat([i \in 1..Len(node.kids) |->
                                   writexml(node.kids[i], indent \o <<"\t">>)])
                      \o Chars(indent))
           \o <<EndTag(node.tag)>> \o Chars(<<"\n">>)

\* Document.toprettyxml()
toprettyxml(doc) ==
    LET tokens == <<DeclToken("xml version=1.0")>> \o Chars(<<"\n">>)
                    \o Concat([i \in 1..Len(doc.kids) |-> writexml(doc.kids[i], <<>>)])
    IN  merge_chars(tokens, 1, Len(tokens), <<>>)

----------------------------------------------------------------------------
(* Subscription *)

\* schemas/subscribe.json: the three required fields, full_name not empty,
\* boroughs_to_follow a list that is not empty
subscribe_schema(json_data) ==
    /\ {"full_name", "email", "boroughs_to_follow"} \subseteq DOMAIN json_data
    /\ json_data.full_name # <<>>
    /\ json_data.boroughs_to_follow # <<>>

\* mutant: only the presence of boroughs_to_follow decides
validate_json_lenient(json_data) == "boroughs_to_follow" \in DOMAIN json_data

\* _validate_json(schema_filename, json_data): False where validate() raises
\* ValidationError, else True
validate_json(json_data) == subscribe_schema(json_data)

\* Subscriber(full_name, email, boroughs_to_follow): a transient object, no id yet
Subscriber(full_name, email, boroughs_to_follow) ==
    [id |-> 0, full_name |-> full_name, email |-> email,
     boroughs_to_follow |-> boroughs_to_follow]

InvalidDataError ==
    << <<"error", "Les donnees fournies ne sont pas valides.">> >>

StorageError ==
    << <<"error", "Une erreur est survenue lors de l'ajout dans la base de donnees.">> >>

NoResponse == [status |-> 0, body |-> <<>>]

\* Flask-SQLAlchemy's teardown of the request's scoped session: session.remove()
shutdown_session(r) == [session EXCEPT ![r] = <<>>]

\* subscribe(), lines 113-123 and 135-138: read the body, validate it, then
\* either answer 400 or construct the Subscriber and add it to the session
subscribe_begin(r, json_data) ==
    /\ pc[r] = "idle"
    /\ request_data' = [request_data EXCEPT ![r] = json_data]
    /\ IF validate_json(json_data)
       THEN /\ session' = [session EXCEPT ![r] =
                    Append(@, Subscriber(json_data.full_name, json_data.email,
                                         json_data.boroughs_to_follow))]
            /\ pc' = [pc EXCEPT ![r] = "added"]
            /\ UNCHANGED response
       ELSE /\ response' = [response EXCEPT ![r] =
                    [status |-> 400, body |-> InvalidDataError]]
            /\ pc' = [pc EXCEPT ![r] = "done"]
            /\ UNCHANGED session
    /\ UNCHANGED <<tables, subscribers, reply>>

\* the rows db.session.commit() inserts for the pending objects of a session,
\* each with the next primary key
flushed(pending, stored) ==
    [i \in 1..Len(pending) |-> [pending[i] EXCEPT !.id = Len(stored) + i]]

\* subscribe(), line 124, db.session.commit() succeeding: one transaction
\* inserts the pending objects
subscribe_commit(r) ==
    /\ pc[r] = "added"
    /\ subscribers' = subscribers \o flushed(session[r], subscribers)
    /\ session' = [session EXCEPT ![r] = flushed(session[r], subscribers)]
    /\ pc' = [pc EXCEPT ![r] = "committed"]
    /\ UNCHANGED <<tables, request_data, response, reply>>

\* mutant: the 500 answer carries the submitted fields
subscribe_storage_error_echo(r) ==
    /\ pc[r] = "added"
    /\ response' = [response EXCEPT ![r] =
            [status |-> 500, body |-> dump(session[r][1], SubscriberFields)]]
    /\ pc' = [pc EXCEPT ![r] = "done"]
    /\ session' = shutdown_session(r)
    /\ UNCHANGED <<tables, subscribers, request_data, reply>>

\* mutant: the row stays inserted although the request is answered 500
subscribe_storage_error_partial(r) ==
    /\ pc[r] = "added"
    /\ subscribers' = subscribers \o flushed(session[r], subscribers)
    /\ response' = [response EXCEPT ![r] = [status |-> 500, body |-> StorageError]]
    /\ pc' = [pc EXCEPT ![r] = "done"]
    /\ session' = shutdown_session(r)
    /\ UNCHANGED <<tables, request_data, reply>>

\* subscribe(), lines 124 and 128-133, add or commit raising SQLAlchemyError:
\* the transaction is rolled back by the database and the handler answers 500
subscribe_storage_error(r) ==
    /\ pc[r] = "added"
    /\ response' = [response EXCEPT ![r] = [status |-> 500, body |-> StorageError]]
    /\ pc' = [pc EXCEPT ![r] = "done"]
    /\ session' = shutdown_session(r)
    /\ UNCHANGED <<tables, subscribers, request_data, reply>>

\* mutant: the object is loaded from the row stored last
refreshed_latest(obj) == subscribers[Len(subscribers)]

\* the stored row an object of the session is loaded from after the commit
\* expired it
refreshed(obj) ==
    LET i == CHOOSE j \in 1..Len(subscribers) : subscribers[j].id = obj.id
    IN  subscribers[i]

\* subscribe(), lines 125-127: serialise the committed subscriber, answer 201
subscribe_return(r) ==
    /\ pc[r] = "committed"
    /\ response' = [response EXCEPT ![r] =
            [status |-> 201, body |-> dump(refreshed(session[r][1]), SubscriberFields)]]
    /\ pc' = [pc EXCEPT ![r] = "done"]
    /\ session' = shutdown_session(r)
    /\ UNCHANGED <<tables, subscribers, request_data, reply>>

----------------------------------------------------------------------------
(* GET handlers *)

Reply(endpoint, arg, raised, body, input) ==
    [endpoint |-> endpoint, arg |-> arg, raised |-> raised, body |-> body,
     input |-> input]

subscription == <<subscribers, session, pc, request_data, response>>

\* boroughs()
boroughs ==
    /\ reply' = Reply("/arrondissements", None, "",
                      dump_many(query_all(arrondissements), ArrondissementFields), <<>>)
    /\ UNCHANGED <<tables, subscription>>

\* facilities()
facilities(arr_filter) ==
    /\ reply' = Reply("/installations", arr_filter, "", facilities_body(arr_filter), <<>>)
    /\ UNCHANGED <<tables, subscription>>

\* facilities_updated_2021()
facilities_updated_2021 ==
    /\ \E t \in get_facilities_updated_2021 :
          reply' = Reply("/installations-maj-2021", None, "",
                         Envelope(t[3], t[1], t[2]), <<>>)
    /\ UNCHANGED <<tables, subscription>>

\* facilities_updated_2021_xml(); parseString raising ExpatError is not caught
facilities_updated_2021_xml ==
    /\ \E t \in get_facilities_updated_2021 :
          LET parsed_xml_data == parseString(joined_xml_data(t[1], t[2], t[3]))
          IN  reply' = IF parsed_xml_data.ok
                       THEN Reply("/installations-maj-2021.xml", None, "",
                                  toprettyxml(parsed_xml_data.doc),
                                  Envelope(t[3], t[1], t[2]))
                       ELSE Reply("/installations-maj-2021.xml", None, "ExpatError",
                                  <<>>, Envelope(t[3], t[1], t[2]))
    /\ UNCHANGED <<tables, subscription>>

\* facility_names()
facility_names ==
    /\ reply' = Reply("/installations-noms", None, "", facility_names_body, <<>>)
    /\ UNCHANGED <<tables, subscription>>

\* facility_name_search(): slides, aquatic_facilities and ice_rinks are bound
\* only inside "if name_filter is not None"; without 'nom' line 281 reads an
\* unbound local and raises UnboundLocalError
facility_name_search(name_filter) ==
    /\ reply' = IF name_filter # None
                THEN Reply("/installations-recherche-nom", name_filter, "",
                           facility_name_search_body(name_filter), <<>>)
                ELSE Reply("/installations-recherche-nom", name_filter,
                           "UnboundLocalError", <<>>, <<>>)
    /\ UNCHANGED <<tables, subscription>>

----------------------------------------------------------------------------
(* Initial states and specifications *)

\* the tables of n rows with primary keys 1..n and columns drawn from Cols
TableOf(n, Cols) == { [i \in 1..n |-> [id |-> i] @@ c[i]] : c \in [1..n -> Cols] }

\* two boroughs, and at most MaxRows facilities over the three facility tables
InitTables(ArrCols, SlideCols, AquaticCols, RinkCols) ==
    /\ arrondissements \in TableOf(2, ArrCols)
    /\ \E ns, na, np \in 0..MaxRows :
          /\ ns + na + np <= MaxRows
          /\ glissades \in TableOf(ns, SlideCols)
          /\ installations_aquatiques \in TableOf(na, AquaticCols)
          /\ patinoires \in TableOf(np, RinkCols)

\* no /abonnement request received yet, no Subscriber stored, no GET answered
InitRequests ==
    /\ subscribers = <<>>
    /\ session = [r \in Requests |-> <<>>]
    /\ pc = [r \in Requests |-> "idle"]
    /\ request_data = [r \in Requests |-> <<>>]
    /\ response = [r \in Requests |-> NoResponse]
    /\ reply = Reply("", None, "", <<>>, <<>>)

Date2021 == <<"2", "0", "2", "1", "-">>

DateInside2021 == <<"1", "-", "2", "0", "2", "1">>

Date2020 == <<"2", "0", "2", "0">>

\* the bodies posted to /abonnement: two valid ones with the same email, one
\* with an empty full_name, one without boroughs_to_follow, one following nothing
Documents ==
    { [full_name |-> <<"a">>, email |-> <<"a">>, boroughs_to_follow |-> <<1>>],
      [full_name |-> <<"b">>, email |-> <<"a">>, boroughs_to_follow |-> <<1, 2>>],
      [full_name |-> <<>>, email |-> <<"a">>, boroughs_to_follow |-> <<1>>],
      [full_name |-> <<"a">>, email |-> <<"a">>],
      [full_name |-> <<"a">>, email |-> <<"a">>, boroughs_to_follow |-> <<>>] }

\* the names given as 'arrondissement' and as 'nom'
ArgNoms == {<<>>, <<"A">>, <<"a">>, <<"B">>}

Optional(S) == {None} \cup {Some(v) : v \in S}

\* one small catalogue, every request
Init ==
    /\ arrondissements =
          << [id |-> 1, nom |-> <<"A">>, date_maj |-> Date2021],
             [id |-> 2, nom |-> <<"B">>, date_maj |-> Date2020] >>
    /\ glissades = << [id |-> 1, nom |-> <<"b">>, arrondissement_id |-> 1] >>
    /\ installations_aquatiques = << [id |-> 1, nom |-> <<"a">>, arrondissement_id |-> 2] >>
    /\ patinoires = << [id |-> 1, nom |-> <<"B">>, date_heure |-> DateInside2021,
                        arrondissement_id |-> 2] >>
    /\ InitRequests

Next ==
    \/ \E r \in Requests, json_data \in Documents : subscribe_begin(r, json_data)
    \/ \E r \in Requests : subscribe_commit(r)
    \/ \E r \in Requests : subscribe_storage_error(r)
    \/ \E r \in Requests : subscribe_return(r)
    \/ boroughs
    \/ \E arr_filter \in Optional({<<"A">>}) : facilities(arr_filter)
    \/ facilities_updated_2021
    \/ facilities_updated_2021_xml
    \/ facility_names
    \/ \E name_filter \in Optional({<<"a">>}) : facility_name_search(name_filter)

Spec == Init /\ [][Next]_vars

\* catalogues varying in borough names, facility names and owning boroughs
InitFacilities ==
    /\ InitTables([nom : {<<"A">>, <<"a">>}, date_maj : {Date2021}],
                  [nom : {<<"a">>, <<"B">>}, arrondissement_id : {1, 2}],
                  [nom : {<<"a">>, <<"B">>}, arrondissement_id : {1, 2}],
                  [nom : {<<"a">>, <<"B">>}, date_heure : {Date2021},
                   arrondissement_id : {1, 2}])
    /\ InitRequests

NextFacilities ==
    \/ boroughs
    \/ \E arr_filter \in Optional(ArgNoms) : facilities(arr_filter)
    \/ facility_names
    \/ \E name_filter \in Optional(ArgNoms) : facility_name_search(name_filter)

SpecFacilities == InitFacilities /\ [][NextFacilities]_vars

\* catalogues varying in the boroughs' date_maj, the rinks' date_heure, the
\* facility names and the owning boroughs
InitUpdated ==
    /\ InitTables([nom : {<<"A">>}, date_maj : {Date2021, DateInside2021, Date2020}],
                  [nom : {<<"a">>, <<"B">>}, arrondissement_id : {1, 2}],
                  [nom : {<<"a">>, <<"B">>}, arrondissement_id : {1, 2}],
                  [nom : {<<"a">>, <<"B">>},
                   date_heure : {Date2021, DateInside2021, Date2020},
                   arrondissement_id : {1}])
    /\ InitRequests

NextUpdated == facilities_updated_2021

SpecUpdated == InitUpdated /\ [][NextUpdated]_vars

\* catalogues for the XML rendering: facility names with and without the
\* characters XML escapes, rinks dated in and out of the year
InitXml ==
    /\ InitTables([nom : {<<"A">>}, date_maj : {Date2021}],
                  [nom : {<<"a">>, <<"<", "&">>}, arrondissement_id : {1}],
                  [nom : {<<"a">>, <<"<", "&">>}, arrondissement_id : {2}],
                  [nom : {<<"a">>, <<"<", "&">>}, date_heure : {Date2021, Date2020},
                   arrondissement_id : {1}])
    /\ InitRequests

NextXml == facilities_updated_2021_xml

SpecXml == InitXml /\ [][NextXml]_vars

----------------------------------------------------------------------------
(* Properties *)

\* the value of field key in a serialised document
Field(doc, key) == doc[CHOOSE i \in 1..Len(doc) : doc[i][1] = key][2]

\* the primary keys of a sequence of serialised documents
Ids(docs) == { Field(docs[i], "id") : i \in 1..Len(docs) }

\* docs holds exactly the documents of the rows of table whose key is in keys,
\* each once
HoldsExactly(docs, table, fields, keys) ==
    /\ Len(docs) = Cardinality(keys)
    /\ Ids(docs) = keys
    /\ \A i \in 1..Len(docs) :
          \E j \in 1..Len(table) : table[j].id \in keys /\ docs[i] = dump(table[j], fields)

\* docs is in ascending order of nom
AscendingByNom(docs) ==
    \A i \in 1..(Len(docs) - 1) : StrLeq(Field(docs[i], "nom"), Field(docs[i + 1], "nom"))

\* the requests whose subscriber has been committed
Committed == { r \in Requests : pc[r] = "committed" \/ response[r].status = 201 }

\* seq is an initial part of longer
IsPrefix(seq, longer) == Len(seq) <= Len(longer) /\ SubSeq(longer, 1, Len(seq)) = seq

(* C1: a body that fails the subscription schema is answered 400 with the   *)
(* fixed invalid-data message, and the step that answers it adds nothing to *)
(* the session and leaves the stored Subscribers as they were; the request  *)
(* never holds a Subscriber in its session.                                 *)
C1_InvalidBodyRejected ==
    /\ [](\A r \in Requests :
            (pc[r] # "idle" /\ ~subscribe_schema(request_data[r])) =>
                /\ pc[r] = "done"
                /\ response[r] = [status |-> 400, body |-> InvalidDataError]
                /\ session[r] = <<>>)
    /\ [][\A r \in Requests :
            (pc[r] = "idle" /\ pc'[r] # "idle" /\ ~subscribe_schema(request_data'[r])) =>
                /\ subscribers' = subscribers
                /\ session' = session]_vars

C1_Witness ==
    \E r \in Requests :
        /\ response[r].status = 400
        /\ "boroughs_to_follow" \notin DOMAIN request_data[r]
        /\ Len(subscribers) = 1

(* C2: when the insert or the commit of a valid body fails, the request is  *)
(* answered 500 with the fixed storage-error message only, in one step that *)
(* leaves the stored Subscribers unchanged and the request's session empty; *)
(* the request is never run again, and the stored Subscribers are exactly   *)
(* those of the requests whose commit succeeded.                            *)
C2_StorageErrorLeavesNothing ==
    /\ [](\A r \in Requests :
            response[r].status = 500 =>
                /\ response[r].body = StorageError
                /\ pc[r] = "done"
                /\ session[r] = <<>>)
    /\ [](Len(subscribers) = Cardinality(Committed))
    /\ [][\A r \in Requests :
            /\ (pc[r] = "added" /\ pc'[r] = "done") =>
                  /\ response'[r].status = 500
                  /\ subscribers' = subscribers
            /\ pc[r] = "done" => (pc'[r] = "done" /\ response'[r] = response[r])]_vars

C2_Witness ==
    \E r \in Requests :
        /\ response[r].status = 500
        /\ subscribe_schema(request_data[r])
        /\ \E q \in Requests : response[q].status = 201

(* C3: every request ends with a result document or one of the two explicit *)
(* errors (400, 500 storage error); no exception leaves a handler.          *)
C3_NoExceptionEscapes ==
    /\ reply.raised = ""
    /\ \A r \in Requests : response[r].status \in {0, 201, 400, 500}

\* the keys of the rows of table owned by a borough named n
OwnedByBoroughNamed(table, n) ==
    { table[i].id : i \in { k \in 1..Len(table) :
        \E j \in 1..Len(arrondissements) :
            /\ arrondissements[j].id = table[k].arrondissement_id
            /\ arrondissements[j].nom = n } }

(* C4: with 'arrondissement' = N each of the three collections of            *)
(* /installations holds exactly the stored facilities of its kind whose      *)
(* owning borough is named N (case-sensitive); all three are empty when no   *)
(* borough is named N; without the argument each collection is every stored  *)
(* row of its kind, in storage order.                                        *)
C4_FacilitiesOfBorough ==
    reply.endpoint = "/installations" =>
        /\ reply.raised = ""
        /\ reply.arg # None =>
              LET n == reply.arg[1]
              IN  /\ HoldsExactly(reply.body.glissades, glissades, GlissadeFields,
                                  OwnedByBoroughNamed(glissades, n))
                  /\ HoldsExactly(reply.body.installations_aquatiques,
                                  installations_aquatiques, InstallationAquatiqueFields,
                                  OwnedByBoroughNamed(installations_aquatiques, n))
                  /\ HoldsExactly(reply.body.patinoires, patinoires, PatinoireFields,
                                  OwnedByBoroughNamed(patinoires, n))
                  /\ (\A j \in 1..Len(arrondissements) : arrondissements[j].nom # n) =>
                        reply.body = Envelope(<<>>, <<>>, <<>>)
        /\ reply.arg = None =>
              reply.body = Envelope(
                  [i \in 1..Len(glissades) |-> dump(glissades[i], GlissadeFields)],
                  [i \in 1..Len(installations_aquatiques) |->
                      dump(installations_aquatiques[i], InstallationAquatiqueFields)],
                  [i \in 1..Len(patinoires) |-> dump(patinoires[i], PatinoireFields)])

\* boroughs named "A" and "a", a slide of each, and only the first one listed
C4_Witness ==
    /\ reply.endpoint = "/installations"
    /\ reply.arg = Some(<<"A">>)
    /\ arrondissements[2].nom = <<"a">>
    /\ Len(glissades) = 2
    /\ Ids(reply.body.glissades) = {2}
    /\ Len(reply.body.patinoires) = 1

\* the keys of the rows of table whose borough's date_maj starts with y
OwnerUpdatedIn(table, y) ==
    { table[i].id : i \in { k \in 1..Len(table) :
        \E j \in 1..Len(arrondissements) :
            /\ arrondissements[j].id = table[k].arrondissement_id
            /\ HasPrefix(arrondissements[j].date_maj, y) } }

\* the years a caller may have in mind: the one the code queries, and another
Years == {year, Date2020}

(* C5 as stated: for every year Y the updated-in-year query returns as      *)
(* aquatic facilities, and as slides, exactly the stored facilities of the  *)
(* kind whose owning borough's date_maj starts with Y, each collection in   *)
(* ascending order of nom.                                                  *)
C5_AnyYear ==
    reply.endpoint = "/installations-maj-2021" =>
        \A y \in Years :
            /\ HoldsExactly(reply.body.installations_aquatiques, installations_aquatiques,
                            InstallationAquatiqueFields,
                            OwnerUpdatedIn(installations_aquatiques, y))
            /\ HoldsExactly(reply.body.glissades, glissades, GlissadeFields,
                            OwnerUpdatedIn(glissades, y))
            /\ AscendingByNom(reply.body.installations_aquatiques)
            /\ AscendingByNom(reply.body.glissades)
            /\ AscendingByNom(reply.body.patinoires)

(* C5 amended: the updated-in-year query, which takes no year and always    *)
(* filters on the literal 2021, returns as aquatic facilities, and as       *)
(* slides, exactly the stored facilities of the kind whose owning borough's *)
(* date_maj starts with 2021, and each of the three collections is in       *)
(* ascending order of nom.                                                  *)
C5_UpdatedInYearSorted ==
    reply.endpoint = "/installations-maj-2021" =>
        /\ HoldsExactly(reply.body.installations_aquatiques, installations_aquatiques,
                        InstallationAquatiqueFields,
                        OwnerUpdatedIn(installations_aquatiques, year))
        /\ HoldsExactly(reply.body.glissades, glissades, GlissadeFields,
                        OwnerUpdatedIn(glissades, year))
        /\ AscendingByNom(reply.body.installations_aquatiques)
        /\ AscendingByNom(reply.body.glissades)
        /\ AscendingByNom(reply.body.patinoires)

\* two aquatic facilities returned in the reverse of their storage order, a
\* third left out because its borough's date_maj holds the year further on
C5_Witness ==
    /\ reply.endpoint = "/installations-maj-2021"
    /\ Len(installations_aquatiques) = 3
    /\ Len(reply.body.installations_aquatiques) = 2
    /\ Field(reply.body.installations_aquatiques[1], "id") >
          Field(reply.body.installations_aquatiques[2], "id")
    /\ Field(reply.body.installations_aquatiques[1], "nom") #
          Field(reply.body.installations_aquatiques[2], "nom")
    /\ \E j \in 1..2 : arrondissements[j].date_maj = DateInside2021

\* y occurs in s, at any position
OccursIn(y, s) == \E k \in 1..(Len(s) - Len(y) + 1) : SubSeq(s, k, k + Len(y) - 1) = y

\* the keys of the ice rinks whose own date_heure holds y
RinksDated(y) ==
    { patinoires[i].id : i \in { k \in 1..Len(patinoires) :
        OccursIn(y, patinoires[k].date_heure) } }

(* C6: the updated-in-year query returns an ice rink if and only if its own *)
(* date_heure holds the year at some position, whatever its borough's       *)
(* date_maj is.                                                             *)
C6_RinkBySubstring ==
    reply.endpoint = "/installations-maj-2021" =>
        HoldsExactly(reply.body.patinoires, patinoires, PatinoireFields, RinksDated(year))

\* a rink with the year in the middle of date_heure is returned, although its
\* borough's date_maj does not start with the year; an aquatic facility of a
\* borough with that same date in date_maj is not returned
C6_Witness ==
    /\ reply.endpoint = "/installations-maj-2021"
    /\ Len(patinoires) = 1
    /\ patinoires[1].date_heure = DateInside2021
    /\ arrondissements[1].date_maj = DateInside2021
    /\ Len(reply.body.patinoires) = 1
    /\ Len(installations_aquatiques) = 1
    /\ installations_aquatiques[1].arrondissement_id = 1
    /\ reply.body.installations_aquatiques = <<>>

\* the text an XML element carries for a field of a document
TextOf(field) == IF IsNumber(field[1]) THEN str_int(field[2]) ELSE field[2]

\* the document as its XML elements read back: the field names and their text
AsText(doc) == [i \in 1..Len(doc) |-> <<doc[i][1], TextOf(doc[i])>>]

\* the element children of a parsed element, indentation dropped
Elements(node) == SelectSeq(node.kids, LAMBDA k : k.kind = "element")

\* the text of a parsed leaf element
TextContent(node) == IF node.kids = <<>> THEN <<>> ELSE node.kids[1].data

\* a container element read back: its name and, per child element, the
\* sub-elements' names and texts in document order
ReadContainer(node) ==
    LET items == Elements(node)
    IN  [name |-> node.tag,
         docs |-> [i \in 1..Len(items) |->
                     LET fields == Elements(items[i])
                     IN  [k \in 1..Len(fields) |->
                            <<fields[k].tag, TextContent(fields[k])>>]]]

\* the response read back: root name and containers
ReadBack(tokens) ==
    LET root == parseString(tokens).doc.kids[1]
        containers == Elements(root)
    IN  [root |-> root.tag,
         containers |-> [i \in 1..Len(containers) |-> ReadContainer(containers[i])]]

(* C7: the XML response has root installations with exactly the containers  *)
(* glissades, installations_aquatiques, patinoires in that order; each      *)
(* holds one element per input document, in input order, whose sub-elements *)
(* carry the document's fields and values (numbers as their decimal text);  *)
(* no element has an attribute; the response parses.                        *)
C7_XmlRoundTrip ==
    reply.endpoint = "/installations-maj-2021.xml" =>
        /\ reply.raised = ""
        /\ parseString(reply.body).ok
        /\ \A i \in 1..Len(reply.body) : reply.body[i].attrs = <<>>
        /\ ReadBack(reply.body) =
              [root |-> "installations",
               containers |->
                 << [name |-> "glissades",
                     docs |-> [i \in 1..Len(reply.input.glissades) |->
                                 AsText(reply.input.glissades[i])]],
                    [name |-> "installations_aquatiques",
                     docs |-> [i \in 1..Len(reply.input.installations_aquatiques) |->
                                 AsText(reply.input.installations_aquatiques[i])]],
                    [name |-> "patinoires",
                     docs |-> [i \in 1..Len(reply.input.patinoires) |->
                                 AsText(reply.input.patinoires[i])]] >>]

\* two slides rendered, the first named with the characters XML escapes, and
\* one ice rink
C7_Witness ==
    /\ reply.endpoint = "/installations-maj-2021.xml"
    /\ Len(reply.input.glissades) = 2
    /\ Field(reply.input.glissades[1], "nom") = <<"<", "&">>
    /\ Field(reply.input.glissades[2], "nom") = <<"a">>
    /\ Len(reply.input.patinoires) = 1
    /\ \E i \in 1..Len(reply.body) :
          reply.body[i].data = <<"&", "l", "t", ";", "&", "a", "m", "p", ";">>

====
